---- MODULE Spec2Model ----
(***************************************************************************)
(* Order placement of the workshop-nestjs backend.                         *)
(*                                                                         *)
(* OrdersService.create reads the catalog once (productsRepository.find    *)
(* with In(ids)), computes the total, saves the order header, builds one   *)
(* item per product row that the read returned, and saves the items.  The  *)
(* three awaits are the points where other requests interleave; there is   *)
(* no transaction around the two writes.                                   *)
(***************************************************************************)
EXTENDS Integers, Sequences, FiniteSets

\* ---------------------------------------------------------------- bounds
MaxLines == 2
MaxProducts == 2
MaxOrders == 1
MaxConcLines == 1
MaxUsers == 2
MaxTokens == 1
MaxTime == 62

\* signOptions: { expiresIn: '1h' }, in minutes
ExpiresIn == 60

Requests == {"r1", "r2"}
Prices == {5, 10}
\* @IsNumber() admits every number
Quantities == {0, 2}
UserIds == {1}
Names == {"Ana"}
Emails == {"ana@x.io", "bia@x.io"}
Passwords == {"Pw1!aaaa", "Pw2!bbbb"}
JwtSecretEnvs == {"", "chave-secreta"}
TickSteps == {30, 31}

VARIABLES
  catalog,        \* Products table: set of rows [id, price]
  nextProductId,  \* generated key of the next Product row
  orders,         \* Orders table, in insertion order; a row's id is its position
  orderItems,     \* OrderItems table, in insertion order; a row's id is its position
  pc,             \* per request: position inside OrdersService.create
  dto,            \* per request: the CreateOrderDto it was called with
  products,       \* per request: the local `products` (result of the catalog read)
  order,          \* per request: the local `order` (<<>> until it is created)
  error,          \* per request: what the call threw ("none" when nothing)
  completed,      \* ids of the orders whose create call returned normally
  seen,           \* response of the OrdersService.findAll that has just run, if one has
  users,          \* Users table: set of rows [id, name, email, password]
  nextUserId,     \* generated key of the next User row
  jwtSecretEnv,   \* process.env.JWT_SECRET when the modules are loaded
  now,            \* the clock, in minutes
  issued,         \* the tokens jwtService.sign has produced
  resp            \* request and response of the users/auth operation that has just run

authVars == <<users, nextUserId, jwtSecretEnv, now, issued, resp>>

vars == <<catalog, nextProductId, orders, orderItems, pc, dto, products, order,
          error, completed, seen, authVars>>

\* ---------------------------------------------------------------- data
ProductIds == 1..MaxProducts

\* CreateOrderItemDto: one requested line
Lines == [productId : ProductIds, quantity : Quantities]

SeqsUpTo(S, n) == UNION {[1..k -> S] : k \in 0..n}

\* CreateOrderDto
Dtos == [products : SeqsUpTo(Lines, MaxLines), userId : UserIds]

NoDto == [products |-> <<>>, userId |-> 0]

\* no findAll response
NoRead == [read |-> FALSE, orders |-> <<>>]

\* ---------------------------------------------------------------- helpers
\* rows of a set of Product rows, ascending by id (the order of the result rows)
RECURSIVE ById(_)
ById(S) ==
  IF S = {} THEN <<>>
  ELSE LET lo == CHOOSE x \in S : \A y \in S : x.id <= y.id
       IN <<lo>> \o ById(S \ {lo})

\* createOrderDto.products.map((item) => item.productId)
RequestedIds(d) == {d.products[i].productId : i \in 1..Len(d.products)}

\* productsRepository.find({ where: { id: In(ids) } }): one row per matching
\* product, however often its id is listed
Find(cat, ids) == {p \in cat : p.id \in ids}

\* createOrderDto.products.find((p) => p.productId === product.id):
\* the FIRST line with that id, <<>> for undefined
FindItem(d, pid) ==
  LET idx == {i \in 1..Len(d.products) : d.products[i].productId = pid}
  IN IF idx = {} THEN <<>>
     ELSE <<d.products[CHOOSE i \in idx : \A j \in idx : i <= j]>>

\* faulty variant: the lines are walked and a line without product row throws
ThrowsOnUnknown(prods, d) ==
  \E id \in RequestedIds(d) : \A p \in prods : p.id # id

\* faulty variant: reduce without initial value throws on an empty result
ThrowsOnEmpty(prods, d) ==
  \/ prods = {}
  \/ \E p \in prods : FindItem(d, p.id) = <<>>

\* item.quantity throws a TypeError when item is undefined
Throws(prods, d) == \E p \in prods : FindItem(d, p.id) = <<>>

\* products.reduce((acc, product) => acc + product.price * item.quantity, 0)
RECURSIVE OrderTotal(_, _)
OrderTotal(prods, d) ==
  IF prods = {} THEN 0
  ELSE LET p == CHOOSE x \in prods : TRUE
       IN p.price * FindItem(d, p.id)[1].quantity + OrderTotal(prods \ {p}, d)

\* faulty variant: the item total forgets the quantity
BuildItemsUnitTotal(prods, d, oid) ==
  LET rows == ById(prods)
  IN [i \in 1..Len(rows) |->
        [orderId |-> oid,
         productId |-> rows[i].id,
         quantity |-> FindItem(d, rows[i].id)[1].quantity,
         price |-> rows[i].price,
         total |-> rows[i].price]]

\* faulty variant: the items are built before the header has its id
BuildItemsBeforeSave(prods, d, oid) ==
  LET rows == ById(prods)
  IN [i \in 1..Len(rows) |->
        [orderId |-> 0,
         productId |-> rows[i].id,
         quantity |-> FindItem(d, rows[i].id)[1].quantity,
         price |-> rows[i].price,
         total |-> rows[i].price * FindItem(d, rows[i].id)[1].quantity]]

\* faulty variant: the items are priced from a second catalog read
BuildItemsRereading(prods, d, oid) ==
  LET rows == ById(Find(catalog, {p.id : p \in prods}))
  IN [i \in 1..Len(rows) |->
        [orderId |-> oid,
         productId |-> rows[i].id,
         quantity |-> FindItem(d, rows[i].id)[1].quantity,
         price |-> rows[i].price,
         total |-> rows[i].price * FindItem(d, rows[i].id)[1].quantity]]

\* faulty variant: the items take the id of the newest header in the table
BuildItemsNewestOrder(prods, d, oid) ==
  LET rows == ById(prods)
  IN [i \in 1..Len(rows) |->
        [orderId |-> Len(orders),
         productId |-> rows[i].id,
         quantity |-> FindItem(d, rows[i].id)[1].quantity,
         price |-> rows[i].price,
         total |-> rows[i].price * FindItem(d, rows[i].id)[1].quantity]]

\* products.map((product) => orderItemsRepository.create({...}))
BuildItems(prods, d, oid) ==
  LET rows == ById(prods)
  IN [i \in 1..Len(rows) |->
        [orderId |-> oid,
         productId |-> rows[i].id,
         quantity |-> FindItem(d, rows[i].id)[1].quantity,
         price |-> rows[i].price,
         total |-> rows[i].price * FindItem(d, rows[i].id)[1].quantity]]

\* faulty variant: the store does not look at the reference
OwnerNotChecked(uid) == TRUE

\* @ManyToOne(() => User) @JoinColumn({ name: 'userId' }): the orders table
\* declares userId as a foreign key into the users table, which the store
\* enforces on every insert of an order and every delete of a user
OwnerExists(uid) == \E u \in users : u.id = uid

OwnsOrders(uid) == \E k \in 1..Len(orders) : orders[k].userId = uid

\* orderItemsRepository.save(items): each row gets the next generated id
WithIds(items, base) ==
  [i \in 1..Len(items) |->
     [id |-> base + i,
      orderId |-> items[i].orderId,
      productId |-> items[i].productId,
      quantity |-> items[i].quantity,
      price |-> items[i].price,
      total |-> items[i].total]]

\* ---------------------------------------------------------------- users and auth data
\* text of the password column: a bcrypt digest of `of`, or the text `of` itself
Digest(p) == [bcrypt |-> TRUE, of |-> p]
Text(p) == [bcrypt |-> FALSE, of |-> p]

\* bcrypt.hash(password, 10)
BcryptHash(p) == Digest(p)

\* bcrypt.compareSync(password, stored)
CompareSync(p, stored) == stored.bcrypt /\ stored.of = p

\* CreateUserDto
CreateUserDtos == [name : Names, email : Emails, password : Passwords]

\* UpdateUserDto = PartialType(CreateUserDto): any subset of the fields
UserFields == {"name", "email", "password"}
FieldValues(k) ==
  IF k = "name" THEN Names ELSE IF k = "email" THEN Emails ELSE Passwords
UpdateUserDtos ==
  UNION {{d \in [F -> Names \cup Emails \cup Passwords] :
            \A k \in F : d[k] \in FieldValues(k)} : F \in SUBSET UserFields}

\* process.env.JWT_SECRET || 'secret', as evaluated by JwtModule.register
\* in AuthModule, whose JwtService signs
AuthModuleSecret == IF jwtSecretEnv = "" THEN "secret" ELSE jwtSecretEnv

\* faulty variant: the verifying module ignores the environment
UsersModuleSecretHardcoded == "secret"

\* the same expression in UsersModule, whose JwtService the guard verifies with
UsersModuleSecret == IF jwtSecretEnv = "" THEN "secret" ELSE jwtSecretEnv

\* a signed token: its claims and the secret its signature was made with
NoJwt == [email |-> "", id |-> 0, iat |-> 0, exp |-> 0, sig |-> ""]

\* jwtService.sign(payload) with expiresIn
Sign(payload) ==
  [email |-> payload.email, id |-> payload.id,
   iat |-> now, exp |-> now + ExpiresIn, sig |-> AuthModuleSecret]

\* the claims a verified token yields
Claims(t) == [email |-> t.email, id |-> t.id, iat |-> t.iat, exp |-> t.exp]

\* faulty variant: exp is not looked at
VerifiesIgnoringExpiry(t) == t.sig = UsersModuleSecret

\* faulty variant: the signature is not looked at
VerifiesUnsigned(t) == now < t.exp

\* faulty variant: a token is good only while its user row is still there
VerifiesLiveUser(t) ==
  /\ t.sig = UsersModuleSecret
  /\ now < t.exp
  /\ \E u \in users : u.id = t.id /\ u.email = t.email

\* jwtService.verify(token) succeeds: signature made with the verifier's secret
\* and the clock is before exp
Verifies(t) == t.sig = UsersModuleSecret /\ now < t.exp

\* tokens nobody signed with the secret
ForgedJwts ==
  {[t EXCEPT !.sig = "forged"] : t \in issued}
  \cup [email : Emails, id : {1}, iat : {now}, exp : {now + ExpiresIn},
        sig : {"forged"}]

\* an authorization header value is a text; its pieces are 'Bearer ', a token,
\* or other text
Bearer == [kind |-> "bearer", jwt |-> NoJwt]
Junk == [kind |-> "text", jwt |-> NoJwt]
JwtText(t) == [kind |-> "jwt", jwt |-> t]

\* request.headers.authorization: absent, or a text
NoHeader == [present |-> FALSE, parts |-> <<>>]
Header(parts) == [present |-> TRUE, parts |-> parts]

Headers ==
  {NoHeader, Header(<<>>), Header(<<Bearer>>), Header(<<Junk>>),
   Header(<<Bearer, Junk>>)}
  \cup UNION {{Header(<<Bearer, JwtText(t)>>), Header(<<JwtText(t)>>),
               Header(<<Bearer, Bearer, JwtText(t)>>)}
              : t \in issued \cup ForgedJwts}

\* text.replace('Bearer ', ''): the first occurrence is removed
Replace(parts) ==
  LET idx == {i \in 1..Len(parts) : parts[i].kind = "bearer"}
  IN IF idx = {} THEN parts
     ELSE LET f == CHOOSE i \in idx : \A j \in idx : i <= j
          IN SubSeq(parts, 1, f - 1) \o SubSeq(parts, f + 1, Len(parts))

\* no users/auth operation has just run
NoResp == [op |-> "none"]

\* ---------------------------------------------------------------- init
Init ==
  /\ catalog = {}
  /\ nextProductId = 1
  /\ orders = <<>>
  /\ orderItems = <<>>
  /\ pc = [r \in Requests |-> "idle"]
  /\ dto = [r \in Requests |-> NoDto]
  /\ products = [r \in Requests |-> {}]
  /\ order = [r \in Requests |-> <<>>]
  /\ error = [r \in Requests |-> "none"]
  /\ completed = {}
  /\ seen = NoRead
  /\ users = {}
  /\ nextUserId = 1
  /\ jwtSecretEnv \in JwtSecretEnvs
  /\ now = 0
  /\ issued = {}
  /\ resp = NoResp

\* ---------------------------------------------------------------- products
\* ProductsService.create
ProductCreate(price) ==
  /\ nextProductId <= MaxProducts
  /\ catalog' = catalog \cup {[id |-> nextProductId, price |-> price]}
  /\ nextProductId' = nextProductId + 1
  /\ seen' = NoRead
  /\ UNCHANGED <<orders, orderItems, pc, dto, products, order, error, completed>>
  /\ UNCHANGED authVars

\* Product update: the price of an existing product is replaced
ProductUpdate(id, price) ==
  /\ \E p \in catalog : p.id = id /\ p.price # price
  /\ catalog' = {IF p.id = id THEN [id |-> id, price |-> price] ELSE p : p \in catalog}
  /\ seen' = NoRead
  /\ UNCHANGED <<nextProductId, orders, orderItems, pc, dto, products, order, error, completed>>
  /\ UNCHANGED authVars

\* Product removal: the row leaves the catalog, its id is not reused
ProductRemove(id) ==
  /\ \E p \in catalog : p.id = id
  /\ catalog' = {p \in catalog : p.id # id}
  /\ seen' = NoRead
  /\ UNCHANGED <<nextProductId, orders, orderItems, pc, dto, products, order, error, completed>>
  /\ UNCHANGED authVars

\* ---------------------------------------------------------------- orders
\* faulty variant: the entity is created from the total alone
SavedOrderWithoutUser(prods, d, id) ==
  [id |-> id, total |-> OrderTotal(prods, d), userId |-> 0]

\* ordersRepository.create({ total, userId }) after save has put the
\* generated id on it
SavedOrder(prods, d, id) ==
  [id |-> id, total |-> OrderTotal(prods, d), userId |-> d.userId]

\* OrdersService.create up to the first await: the catalog read
CreateFind(r, d) ==
  /\ pc[r] = "idle"
  /\ Len(orders) < MaxOrders
  /\ dto' = [dto EXCEPT ![r] = d]
  /\ products' = [products EXCEPT ![r] = Find(catalog, RequestedIds(d))]
  /\ pc' = [pc EXCEPT ![r] = "found"]
  /\ seen' = NoRead
  /\ UNCHANGED <<catalog, nextProductId, orders, orderItems, order, error, completed>>
  /\ UNCHANGED authVars

\* total, ordersRepository.create, await ordersRepository.save(order); the
\* insert is rejected when userId references no user
CreateSaveOrder(r) ==
  /\ pc[r] = "found"
  /\ IF Throws(products[r], dto[r])
     THEN /\ pc' = [pc EXCEPT ![r] = "failed"]
          /\ error' = [error EXCEPT ![r] = "TypeError"]
          /\ UNCHANGED <<orders, order>>
     ELSE IF ~OwnerExists(dto[r].userId)
     THEN /\ pc' = [pc EXCEPT ![r] = "failed"]
          /\ error' = [error EXCEPT ![r] = "QueryFailedError"]
          /\ UNCHANGED <<orders, order>>
     ELSE LET o == SavedOrder(products[r], dto[r], Len(orders) + 1)
          IN /\ orders' = Append(orders, o)
             /\ order' = [order EXCEPT ![r] = <<o>>]
             /\ pc' = [pc EXCEPT ![r] = "saved"]
             /\ UNCHANGED error
  /\ seen' = NoRead
  /\ UNCHANGED <<catalog, nextProductId, orderItems, dto, products, completed>>
  /\ UNCHANGED authVars

\* faulty variant: the rejection is caught and the call goes on with an entity
\* that has no id
CreateSaveOrderFailsSwallowed(r) ==
  /\ pc[r] = "found"
  /\ ~Throws(products[r], dto[r])
  /\ pc' = [pc EXCEPT ![r] = "saved"]
  /\ order' = [order EXCEPT ![r] = <<SavedOrder(products[r], dto[r], 0)>>]
  /\ seen' = NoRead
  /\ UNCHANGED <<catalog, nextProductId, orders, orderItems, dto, products, error, completed>>
  /\ UNCHANGED authVars

\* await ordersRepository.save(order) rejects: the call rejects with it
CreateSaveOrderFails(r) ==
  /\ pc[r] = "found"
  /\ ~Throws(products[r], dto[r])
  /\ pc' = [pc EXCEPT ![r] = "failed"]
  /\ error' = [error EXCEPT ![r] = "PersistenceFailure"]
  /\ seen' = NoRead
  /\ UNCHANGED <<catalog, nextProductId, orders, orderItems, dto, products, order, completed>>
  /\ UNCHANGED authVars

\* faulty variant: the products sold are taken out of the catalog
CreateSaveItemsConsuming(r) ==
  /\ pc[r] = "saved"
  /\ orderItems' = orderItems \o
       WithIds(BuildItems(products[r], dto[r], order[r][1].id), Len(orderItems))
  /\ catalog' = {p \in catalog : p.id \notin {q.id : q \in products[r]}}
  /\ pc' = [pc EXCEPT ![r] = "done"]
  /\ completed' = completed \cup {order[r][1].id}
  /\ seen' = NoRead
  /\ UNCHANGED <<nextProductId, orders, dto, products, order, error>>
  /\ UNCHANGED authVars

\* items, await orderItemsRepository.save(items), return order
CreateSaveItems(r) ==
  /\ pc[r] = "saved"
  /\ orderItems' = orderItems \o
       WithIds(BuildItems(products[r], dto[r], order[r][1].id), Len(orderItems))
  /\ pc' = [pc EXCEPT ![r] = "done"]
  /\ completed' = completed \cup {order[r][1].id}
  /\ seen' = NoRead
  /\ UNCHANGED <<catalog, nextProductId, orders, dto, products, order, error>>
  /\ UNCHANGED authVars

\* the response (the returned order, or the rejection) has gone to the caller:
\* the call's locals are gone and the next request can be served
Respond(r) ==
  /\ pc[r] \in {"done", "failed"}
  /\ pc' = [pc EXCEPT ![r] = "idle"]
  /\ dto' = [dto EXCEPT ![r] = NoDto]
  /\ products' = [products EXCEPT ![r] = {}]
  /\ order' = [order EXCEPT ![r] = <<>>]
  /\ error' = [error EXCEPT ![r] = "none"]
  /\ seen' = NoRead
  /\ UNCHANGED <<catalog, nextProductId, orders, orderItems, completed>>
  /\ UNCHANGED authVars

\* await orderItemsRepository.save(items) rejects: nothing undoes the header
CreateSaveItemsFails(r) ==
  /\ pc[r] = "saved"
  /\ pc' = [pc EXCEPT ![r] = "failed"]
  /\ error' = [error EXCEPT ![r] = "PersistenceFailure"]
  /\ seen' = NoRead
  /\ UNCHANGED <<catalog, nextProductId, orders, orderItems, dto, products, order, completed>>
  /\ UNCHANGED authVars

\* the rows of orderItems that a join on orderId attaches to an order
ItemsOf(items, oid) == SelectSeq(items, LAMBDA i : i.orderId = oid)

\* faulty variant: the item price is looked up through its product relation
LinkedPrice(i) ==
  IF \E p \in catalog : p.id = i.productId
  THEN (CHOOSE p \in catalog : p.id = i.productId).price
  ELSE 0

\* OrderItem.price and OrderItem.total are columns of the item row itself
StoredPrice(i) == i.price

StoredTotal(i) == i.total

\* OrdersService.findAll: every order with relations ['items', ...]
FindAllResult ==
  [k \in 1..Len(orders) |->
     [id |-> orders[k].id,
      total |-> orders[k].total,
      userId |-> orders[k].userId,
      items |-> ItemsOf(orderItems, orders[k].id)]]

FindAll ==
  /\ seen' = [read |-> TRUE, orders |-> FindAllResult]
  /\ UNCHANGED <<catalog, nextProductId, orders, orderItems, pc, dto, products, order, error, completed>>
  /\ UNCHANGED authVars

\* ---------------------------------------------------------------- users
ordersVars == <<catalog, nextProductId, orders, orderItems, pc, dto, products,
                order, error, completed, seen>>

\* faulty variant: an id that matches nothing yields the first row
FindOneByIdOrFirst(id) ==
  IF \E u \in users : u.id = id
  THEN <<CHOOSE u \in users : u.id = id>>
  ELSE IF users = {} THEN <<>>
       ELSE <<CHOOSE u \in users : \A v \in users : u.id <= v.id>>

\* usersRepository.findOneBy({ id })
FindOneById(id) ==
  IF \E u \in users : u.id = id
  THEN <<CHOOSE u \in users : u.id = id>>
  ELSE <<>>

\* UsersService.findOneByEmail: usersRepository.findOneBy({ email }) returns
\* one row, the first the table scan meets
FindOneByEmail(email) ==
  LET hits == {u \in users : u.email = email}
  IN IF hits = {} THEN <<>>
     ELSE <<CHOOSE u \in hits : \A v \in hits : u.id <= v.id>>

\* UsersService.create: the password is hashed, the rest of the dto is kept
UserCreate(d) ==
  /\ nextUserId <= MaxUsers
  /\ LET user == [id |-> nextUserId, name |-> d.name, email |-> d.email,
                  password |-> BcryptHash(d.password)]
     IN /\ users' = users \cup {user}
        /\ resp' = [op |-> "users.create", dto |-> d, error |-> "none",
                    result |-> <<user>>]
  /\ nextUserId' = nextUserId + 1
  /\ UNCHANGED <<jwtSecretEnv, now, issued>>
  /\ UNCHANGED ordersVars

\* usersRepository.merge(user, updateUserDto): every field the dto carries
\* replaces the field of the row, as it is
Merge(user, d) ==
  [id |-> user.id,
   name |-> IF "name" \in DOMAIN d THEN d["name"] ELSE user.name,
   email |-> IF "email" \in DOMAIN d THEN d["email"] ELSE user.email,
   password |-> IF "password" \in DOMAIN d THEN Text(d["password"])
                ELSE user.password]

\* UsersService.update
UserUpdate(id, d) ==
  /\ LET found == FindOneById(id)
     IN IF found = <<>>
        THEN /\ resp' = [op |-> "users.update", id |-> id, error |-> "NotFound",
                         result |-> <<>>]
             /\ UNCHANGED users
        ELSE LET user == Merge(found[1], d)
             IN /\ users' = (users \ {found[1]}) \cup {user}
                /\ resp' = [op |-> "users.update", id |-> id, error |-> "none",
                            result |-> <<user>>]
  /\ UNCHANGED <<nextUserId, jwtSecretEnv, now, issued>>
  /\ UNCHANGED ordersVars

\* UsersService.remove; the delete is rejected while an order references the row
UserRemove(id) ==
  /\ LET found == FindOneById(id)
     IN IF found = <<>>
        THEN /\ resp' = [op |-> "users.remove", id |-> id, error |-> "NotFound",
                         result |-> <<>>]
             /\ UNCHANGED users
        ELSE IF OwnsOrders(id)
        THEN /\ resp' = [op |-> "users.remove", id |-> id,
                         error |-> "QueryFailedError", result |-> <<>>]
             /\ UNCHANGED users
        ELSE /\ users' = users \ {found[1]}
             /\ resp' = [op |-> "users.remove", id |-> id, error |-> "none",
                         result |-> found]
  /\ UNCHANGED <<nextUserId, jwtSecretEnv, now, issued>>
  /\ UNCHANGED ordersVars

\* UsersService.findAll: usersRepository.find()
UserFindAll ==
  /\ resp' = [op |-> "users.findAll", result |-> ById(users)]
  /\ UNCHANGED <<users, nextUserId, jwtSecretEnv, now, issued>>
  /\ UNCHANGED ordersVars

\* UsersController.findOne hands +id to the service, which reads only
UserFindOne(id) ==
  /\ resp' = [op |-> "users.findOne", id |-> id]
  /\ UNCHANGED <<users, nextUserId, jwtSecretEnv, now, issued>>
  /\ UNCHANGED ordersVars

\* ---------------------------------------------------------------- auth
\* AuthService.validateUser: the row found by e-mail when the password
\* compares, <<>> for null
ValidateUser(email, password) ==
  LET user == FindOneByEmail(email)
  IN IF user # <<>> /\ CompareSync(password, user[1].password)
     THEN user
     ELSE <<>>

MsgMissing == "Informe e-mail e senha para efetuar o login"
MsgInvalid == "Usuário ou senha inválidos"

\* the two bodies a login answers with
MessageBody(m) == [message |-> m, access_token |-> NoJwt]
TokenBody(t) == [message |-> "", access_token |-> t]

\* faulty variant: an unknown e-mail gets a message of its own
LoginFailureTelling(email) ==
  IF FindOneByEmail(email) = <<>>
  THEN MessageBody("Usuário não encontrado")
  ELSE MessageBody(MsgInvalid)

\* return { message: 'Usuário ou senha inválidos' }, whatever the e-mail
LoginFailure(email) == MessageBody(MsgInvalid)

\* AuthController.login, with AuthService.login for the token
Login(email, password) ==
  /\ IF email = "" \/ password = ""
     THEN /\ resp' = [op |-> "login", email |-> email, password |-> password,
                      validated |-> <<>>, body |-> MessageBody(MsgMissing)]
          /\ UNCHANGED issued
     ELSE LET user == ValidateUser(email, password)
          IN IF user # <<>>
             THEN LET t == Sign([email |-> user[1].email, id |-> user[1].id])
                  IN /\ Cardinality(issued \cup {t}) <= MaxTokens
                     /\ issued' = issued \cup {t}
                     /\ resp' = [op |-> "login", email |-> email,
                                 password |-> password, validated |-> user,
                                 body |-> TokenBody(t)]
             ELSE /\ resp' = [op |-> "login", email |-> email,
                              password |-> password, validated |-> <<>>,
                              body |-> LoginFailure(email)]
                  /\ UNCHANGED issued
  /\ UNCHANGED <<users, nextUserId, jwtSecretEnv, now>>
  /\ UNCHANGED ordersVars

\* faulty variant: verify is not wrapped in try/catch
GuardOutcomeUncaught(h) ==
  IF ~h.present
  THEN [result |-> FALSE, user |-> <<>>, thrown |-> FALSE]
  ELSE LET token == Replace(h.parts)
       IN IF token = <<>>
          THEN [result |-> FALSE, user |-> <<>>, thrown |-> FALSE]
          ELSE IF Len(token) = 1 /\ token[1].kind = "jwt" /\ Verifies(token[1].jwt)
               THEN [result |-> TRUE, user |-> <<Claims(token[1].jwt)>>,
                     thrown |-> FALSE]
               ELSE [result |-> FALSE, user |-> <<>>, thrown |-> TRUE]

\* AuthGuard.canActivate: result is the boolean returned, user is request.user
\* (<<>> while unset), thrown tells whether an exception left the guard
GuardOutcome(h) ==
  IF ~h.present
  THEN [result |-> FALSE, user |-> <<>>, thrown |-> FALSE]
  ELSE LET token == Replace(h.parts)
       IN IF token = <<>>
          THEN [result |-> FALSE, user |-> <<>>, thrown |-> FALSE]
          ELSE IF Len(token) = 1 /\ token[1].kind = "jwt" /\ Verifies(token[1].jwt)
               THEN [result |-> TRUE, user |-> <<Claims(token[1].jwt)>>,
                     thrown |-> FALSE]
               ELSE [result |-> FALSE, user |-> <<>>, thrown |-> FALSE]

CanActivate(h) ==
  /\ resp' = [op |-> "guard", header |-> h, outcome |-> GuardOutcome(h)]
  /\ UNCHANGED <<users, nextUserId, jwtSecretEnv, now, issued>>
  /\ UNCHANGED ordersVars

\* time passes
Tick(d) ==
  /\ now + d <= MaxTime
  /\ now' = now + d
  /\ resp' = NoResp
  /\ UNCHANGED <<users, nextUserId, jwtSecretEnv, issued>>
  /\ UNCHANGED ordersVars

\* the registration of the customer the orders are placed for
OwnerDtos == {[name |-> "Ana", email |-> "ana@x.io", password |-> "Pw1!aaaa"]}

Catalog ==
  \/ \E price \in Prices : ProductCreate(price)
  \/ \E id \in ProductIds, price \in Prices : ProductUpdate(id, price)
  \/ \E id \in ProductIds : ProductRemove(id)

Steps ==
  \/ \E r \in Requests : CreateSaveOrder(r)
  \/ \E r \in Requests : CreateSaveOrderFails(r)
  \/ \E r \in Requests : CreateSaveItems(r)
  \/ \E r \in Requests : CreateSaveItemsFails(r)
  \/ \E r \in Requests : Respond(r)

\* nobody has registered yet
NoOwner == users = {}

\* order requests served one after the other (the next call starts when the
\* response of the last one is out), the catalog, the registration and the
\* reader interleaving freely with each of them
Next ==
  \/ Catalog
  \/ FindAll
  \/ \E d \in OwnerDtos : NoOwner /\ UserCreate(d)
  \/ \E d \in Dtos : CreateFind("r1", d)
  \/ Steps

Spec == Init /\ [][Next]_vars

\* the requests that overlap
ConcDtos == [products : SeqsUpTo(Lines, MaxConcLines), userId : UserIds]

\* no order request is in flight and no order has been placed
Quiet == orders = <<>> /\ \A r \in Requests : pc[r] = "idle"

\* order requests overlapping each other, on a catalog and a customer base
\* that were set up beforehand
NextConc ==
  \/ \E price \in Prices : Quiet /\ ProductCreate(price)
  \/ \E d \in OwnerDtos : Quiet /\ NoOwner /\ UserCreate(d)
  \/ \E r \in Requests, d \in ConcDtos : CreateFind(r, d)
  \/ Steps

SpecConc == Init /\ [][NextConc]_vars

\* registrations and removals of users interleaving freely with order
\* requests served one after the other, on a catalog set up beforehand
NextOwners ==
  \/ \E price \in Prices : Quiet /\ ProductCreate(price)
  \/ \E d \in OwnerDtos : UserCreate(d)
  \/ \E id \in 1..MaxUsers : UserRemove(id)
  \/ \E d \in ConcDtos : CreateFind("r1", d)
  \/ Steps

SpecOwners == Init /\ [][NextOwners]_vars

\* user administration and login, at one instant
NextUsers ==
  \/ \E d \in CreateUserDtos : UserCreate(d)
  \/ \E id \in 1..MaxUsers, d \in UpdateUserDtos : UserUpdate(id, d)
  \/ \E id \in 1..MaxUsers : UserRemove(id)
  \/ \E email \in Emails \cup {""}, password \in Passwords \cup {""} :
       Login(email, password)

SpecUsers == Init /\ [][NextUsers]_vars

\* registration, login and the guard, while time passes
NextAuth ==
  \/ \E d \in CreateUserDtos : UserCreate(d)
  \/ \E email \in Emails \cup {""}, password \in Passwords \cup {""} :
       Login(email, password)
  \/ \E h \in Headers : CanActivate(h)
  \/ \E d \in TickSteps : Tick(d)

SpecAuth == Init /\ [][NextAuth]_vars

\* faulty variant: the handler runs whatever the guard returned
GuardPassedOrNot == resp.op = "guard"

\* @UseGuards(AuthGuard): the handler of a guarded route runs next for the
\* request the guard has just returned true for, and not at all otherwise
GuardPassed == resp.op = "guard" /\ resp.outcome.result

\* the requests sent to the routes: a registration, updates of one field,
\* and headers with and without prefix, with an issued or a forged token
RouteUpdateDtos ==
  {d \in UpdateUserDtos : DOMAIN d \in {{"email"}, {"password"}}}

RouteHeaders ==
  {NoHeader, Header(<<Bearer>>)}
  \cup UNION {{Header(<<Bearer, JwtText(t)>>), Header(<<JwtText(t)>>),
               Header(<<Bearer, JwtText([t EXCEPT !.sig = "forged"])>>)}
              : t \in issued}

\* the routes of UsersController: POST /users open, the others behind the
\* guard, with login and the clock
NextRoutes ==
  \/ \E d \in OwnerDtos : UserCreate(d)
  \/ \E email \in Emails \cup {""}, password \in Passwords \cup {""} :
       Login(email, password)
  \/ \E h \in RouteHeaders : CanActivate(h)
  \/ GuardPassed /\ UserFindAll
  \/ \E id \in 1..MaxUsers : GuardPassed /\ UserFindOne(id)
  \/ \E id \in 1..MaxUsers, d \in RouteUpdateDtos : GuardPassed /\ UserUpdate(id, d)
  \/ \E id \in 1..MaxUsers : GuardPassed /\ UserRemove(id)
  \/ \E d \in TickSteps : Tick(d)

SpecRoutes == Init /\ [][NextRoutes]_vars

TypeOK ==
  /\ nextProductId \in 1..(MaxProducts + 1)
  /\ \A p \in catalog : p.id < nextProductId /\ p.price \in Prices
  /\ \A r \in Requests : pc[r] \in {"idle", "found", "saved", "done", "failed"}
\* ---------------------------------------------------------------- properties
\* the request has read the catalog (its locals dto and products are set)
HasRead(r) == pc[r] # "idle"

\* ids of the product rows the catalog read returned
KnownIds(r) == {p.id : p \in products[r]}

\* every requested id was in the catalog when it was read
AllKnown(r) == RequestedIds(dto[r]) \subseteq KnownIds(r)

\* at least one requested id was not in the catalog when it was read
HasUnknown(r) == ~AllKnown(r)

\* the price the catalog read returned for a product
PriceRead(r, pid) == (CHOOSE p \in products[r] : p.id = pid).price

\* sum over ALL lines of price x quantity
RECURSIVE SumOfLines(_, _)
SumOfLines(r, lines) ==
  IF lines = <<>> THEN 0
  ELSE PriceRead(r, Head(lines).productId) * Head(lines).quantity
       + SumOfLines(r, Tail(lines))

RECURSIVE SumOfTotals(_)
SumOfTotals(rows) ==
  IF rows = <<>> THEN 0 ELSE Head(rows).total + SumOfTotals(Tail(rows))

\* number of lines of a request that name a product
Occurrences(d, pid) ==
  Cardinality({i \in 1..Len(d.products) : d.products[i].productId = pid})

\* the persisted header rows with a given id
HeadersOf(oid) == SelectSeq(orders, LAMBDA o : o.id = oid)

\* the header of the request is persisted
HeaderSaved(r) == order[r] # <<>>

\* C1: when every requested product id exists in the catalog, the persisted
\* order's total is the sum over all requested lines of catalog price x quantity,
\* also when a product id is listed more than once
C1_TotalSumsAllLines ==
  \A r \in Requests :
    (HeaderSaved(r) /\ AllKnown(r)) =>
      /\ order[r][1].total = SumOfLines(r, dto[r].products)
      /\ \A k \in 1..Len(orders) :
           orders[k].id = order[r][1].id =>
             orders[k].total = SumOfLines(r, dto[r].products)

\* C2: when the header save succeeded and the items save failed, no header and
\* no item of the failed attempt remains in storage
C2_FailedCreateLeavesNothing ==
  \A r \in Requests :
    (pc[r] = "failed" /\ HeaderSaved(r)) =>
      /\ HeadersOf(order[r][1].id) = <<>>
      /\ ItemsOf(orderItems, order[r][1].id) = <<>>

\* C3: a request with an unknown product id does not fail because of it, and
\* its order gets exactly one kind of item: for requested products that exist,
\* priced as read, the total being the sum of those items
C3_UnknownLinesDropped ==
  \A r \in Requests :
    (HasRead(r) /\ HasUnknown(r)) =>
      /\ error[r] # "TypeError"
      /\ pc[r] = "done" =>
           LET its == ItemsOf(orderItems, order[r][1].id)
           IN /\ \A k \in 1..Len(its) :
                   /\ its[k].productId \in RequestedIds(dto[r]) \cap KnownIds(r)
                   /\ its[k].price = PriceRead(r, its[k].productId)
                   /\ its[k].total = its[k].price * its[k].quantity
              /\ {its[k].productId : k \in 1..Len(its)}
                   = RequestedIds(dto[r]) \cap KnownIds(r)
              /\ order[r][1].total = SumOfTotals(its)
              /\ HeadersOf(order[r][1].id) = <<order[r][1]>>

C3_Witness ==
  \E r \in Requests :
    /\ pc[r] = "done"
    /\ HasUnknown(r)
    /\ Len(ItemsOf(orderItems, order[r][1].id)) = 1
    /\ order[r][1].total > 0

\* C4: a request that lists an existing product id k times gets k order items
\* for that product
C4_OneItemPerOccurrence ==
  \A r \in Requests :
    pc[r] = "done" =>
      \A pid \in KnownIds(r) :
        Len(SelectSeq(ItemsOf(orderItems, order[r][1].id),
                      LAMBDA i : i.productId = pid))
          = Occurrences(dto[r], pid)

\* C5: when no requested product id exists (or no line is requested) the call
\* does not throw, and on return exactly one header with total 0 and no item
\* is persisted for it
C5_EmptyOrderCreated ==
  \A r \in Requests :
    (HasRead(r) /\ products[r] = {}) =>
      /\ error[r] # "TypeError"
      /\ pc[r] = "done" =>
           /\ order[r][1].total = 0
           /\ HeadersOf(order[r][1].id) = <<order[r][1]>>
           /\ order[r][1].userId = dto[r].userId
           /\ ItemsOf(orderItems, order[r][1].id) = <<>>

C5_Witness ==
  \E r \in Requests :
    /\ pc[r] = "done"
    /\ products[r] = {}
    /\ dto[r].products # <<>>
    /\ order[r][1].id \in completed

\* C6: the total of every order whose creation returned normally is the sum of
\* the totals of the persisted items that carry its id
C6_TotalIsSumOfItems ==
  \A k \in 1..Len(orders) :
    orders[k].id \in completed =>
      orders[k].total = SumOfTotals(ItemsOf(orderItems, orders[k].id))

C6_Witness ==
  \E k \in 1..Len(orders) :
    /\ orders[k].id \in completed
    /\ Len(ItemsOf(orderItems, orders[k].id)) = 2
    /\ \E i \in 1..Len(orderItems) : orderItems[i].quantity > 1

\* C7: every persisted item carries the id of a persisted header, and the items
\* a creation wrote carry the id generated for its own header
C7_ItemsBelongToPersistedOrder ==
  /\ \A k \in 1..Len(orderItems) : HeadersOf(orderItems[k].orderId) # <<>>
  /\ \A r \in Requests :
       pc[r] = "done" =>
         Len(ItemsOf(orderItems, order[r][1].id)) = Cardinality(products[r])

C7_Witness ==
  \E r \in Requests :
    /\ pc[r] = "done"
    /\ products[r] # {}
    /\ ItemsOf(orderItems, order[r][1].id) # <<>>

\* C8: the header total and every item price and item total of an order are
\* computed from the prices returned by the catalog read of its creation,
\* whatever the catalog holds afterwards
C8_PricesAsRead ==
  \A r \in Requests :
    /\ HeaderSaved(r) =>
         \A k \in 1..Len(orders) :
           orders[k].id = order[r][1].id =>
             orders[k].total = OrderTotal(products[r], dto[r])
    /\ pc[r] = "done" =>
         LET its == ItemsOf(orderItems, order[r][1].id)
         IN /\ \A k \in 1..Len(its) :
                 /\ its[k].productId \in KnownIds(r)
                 /\ its[k].price = PriceRead(r, its[k].productId)
                 /\ its[k].total = PriceRead(r, its[k].productId) * its[k].quantity
            /\ order[r][1].total = SumOfTotals(its)

C8_Witness ==
  \E r \in Requests :
    /\ pc[r] = "done"
    /\ \E p \in products[r], c \in catalog : c.id = p.id /\ c.price # p.price
    /\ ItemsOf(orderItems, order[r][1].id) # <<>>

\* C9: a step that changes the catalog leaves the stored price and total of
\* every existing order item and the stored total of every existing order
\* as they were
C9_HistoryImmune ==
  [][catalog' # catalog =>
       /\ Len(orderItems') = Len(orderItems)
       /\ \A k \in 1..Len(orderItems) :
            /\ StoredPrice(orderItems[k])' = StoredPrice(orderItems[k])
            /\ StoredTotal(orderItems[k])' = StoredTotal(orderItems[k])
       /\ \A k \in 1..Len(orders) : orders'[k].total = orders[k].total]_vars

C9_Witness ==
  /\ completed # {}
  /\ \A r \in Requests : pc[r] = "idle"
  /\ \E k \in 1..Len(orderItems) :
       /\ orderItems[k].orderId \in completed
       /\ \A p \in catalog :
            p.id = orderItems[k].productId => p.price # orderItems[k].price

\* C10: a findAll response never holds an order with fewer items than the
\* creation of that order writes
C10_NoPartialVisibility ==
  seen.read =>
    \A k \in 1..Len(seen.orders) :
      \A r \in Requests :
        (HeaderSaved(r) /\ order[r][1].id = seen.orders[k].id) =>
          Len(seen.orders[k].items) = Cardinality(products[r])

\* ---------------------------------------------------------------- properties: users and auth
\* a login that carried both an e-mail and a password has just been answered
LoginAnswered == resp.op = "login" /\ resp.email # "" /\ resp.password # ""

\* the body of the login response carries a token
HasToken(body) == body.access_token # NoJwt

\* some stored user has the e-mail
EmailExists(email) == \E u \in users : u.email = email

\* the password is the one of a stored user with the e-mail
PasswordOfSome(email, password) ==
  \E u \in users : u.email = email /\ CompareSync(password, u.password)

\* C11: a login with an existing e-mail and a wrong password and a login with
\* an e-mail of no user get the same body: the generic failure message, no token
C11_SameFailure ==
  (LoginAnswered /\ ~PasswordOfSome(resp.email, resp.password)) =>
    resp.body = MessageBody(MsgInvalid)

C11_Witness ==
  /\ LoginAnswered
  /\ EmailExists(resp.email)
  /\ ~PasswordOfSome(resp.email, resp.password)
  /\ \E e \in Emails : ~EmailExists(e)
  /\ resp.body = MessageBody(MsgInvalid)

\* C12: login answers with a token exactly when e-mail and password are both
\* non-empty and a user with that e-mail exists whose stored hash the password
\* matches; otherwise it answers with a message and no token
C12_TokenIffCredentials ==
  resp.op = "login" =>
    /\ HasToken(resp.body) <=>
         /\ resp.email # ""
         /\ resp.password # ""
         /\ PasswordOfSome(resp.email, resp.password)
    /\ ~HasToken(resp.body) => resp.body.message \in {MsgMissing, MsgInvalid}
    /\ HasToken(resp.body) => resp.body.access_token \in issued

\* the guard has just decided on a request that presented 'Bearer ' followed by
\* a token that login issued
IssuedPresented ==
  /\ resp.op = "guard"
  /\ resp.header.present
  /\ Len(resp.header.parts) = 2
  /\ resp.header.parts[1] = Bearer
  /\ resp.header.parts[2].kind = "jwt"
  /\ resp.header.parts[2].jwt \in issued

PresentedJwt == resp.header.parts[2].jwt

\* C13: a token issued at time T is accepted by the guard at every time before
\* T + 1 hour and denied at every time after T + 1 hour
C13_OneHourWindow ==
  IssuedPresented =>
    /\ now < PresentedJwt.iat + ExpiresIn => resp.outcome.result
    /\ now > PresentedJwt.iat + ExpiresIn => ~resp.outcome.result

C13_Witness ==
  /\ IssuedPresented
  /\ now = PresentedJwt.iat + ExpiresIn + 1
  /\ ~resp.outcome.result

\* the header is not of the form 'Bearer <token>': it is absent, empty,
\* exactly 'Bearer ', or any other text
NoBearerCredential(h) ==
  \/ ~h.present
  \/ h.parts = <<>>
  \/ h.parts = <<Bearer>>
  \/ ~(Len(h.parts) = 2 /\ h.parts[1] = Bearer /\ h.parts[2].kind = "jwt")

\* C14: a request without a bearer credential is denied
C14_NoBearerDenied ==
  (resp.op = "guard" /\ NoBearerCredential(resp.header)) =>
    ~resp.outcome.result

\* the text left after the prefix is a token whose signature was made with the
\* issuing secret and whose exp is still ahead
PassesVerification(h) ==
  LET token == Replace(h.parts)
  IN /\ Len(token) = 1
     /\ token[1].kind = "jwt"
     /\ token[1].jwt.sig = AuthModuleSecret
     /\ now < token[1].jwt.exp

\* C15: when the presented token fails verification the guard returns false,
\* lets no exception out and leaves request.user unset
C15_InvalidTokenDenied ==
  (/\ resp.op = "guard"
   /\ resp.header.present
   /\ Replace(resp.header.parts) # <<>>
   /\ ~PassesVerification(resp.header)) =>
    resp.outcome = [result |-> FALSE, user |-> <<>>, thrown |-> FALSE]

C15_Witness ==
  /\ IssuedPresented
  /\ now >= PresentedJwt.exp
  /\ resp.outcome = [result |-> FALSE, user |-> <<>>, thrown |-> FALSE]

\* C16: the guard returns true only for a token that login issued, signed with
\* the secret and not expired, and request.user is then the claims of that token
C16_AcceptedMeansVerified ==
  (resp.op = "guard" /\ resp.outcome.result) =>
    \E t \in issued :
      /\ Replace(resp.header.parts) = <<JwtText(t)>>
      /\ t.sig = AuthModuleSecret
      /\ now < t.iat + ExpiresIn
      /\ resp.outcome.user = <<Claims(t)>>

C16_Witness ==
  /\ IssuedPresented
  /\ resp.outcome.result
  /\ resp.outcome.user = <<Claims(PresentedJwt)>>

\* C17: the value validateUser returns on success has the fields id and email
\* only, never the stored password
C17_ValidatedIsPublic ==
  (resp.op = "login" /\ resp.validated # <<>>) =>
    DOMAIN resp.validated[1] = {"id", "email"}

\* C18: the password column of every stored user is a one-way hash, never the
\* text the user supplied
C18_PasswordsHashed ==
  \A u \in users : u.password.bcrypt

\* C19: update and remove with an id of no stored user fail with NotFound and
\* leave the user store as it was
C19_UnknownIdNotFound ==
  [][(/\ resp'.op \in {"users.update", "users.remove"}
      /\ \A u \in users : u.id # resp'.id) =>
       (resp'.error = "NotFound" /\ users' = users)]_vars

C19_Witness ==
  /\ resp.op \in {"users.update", "users.remove"}
  /\ resp.error = "NotFound"
  /\ users # {}

\* C20: the token of a login carries the e-mail and id of the user that logged
\* in, and presented inside the window it is accepted with the same e-mail and
\* id attached
C20_IssueVerifyRoundTrip ==
  /\ (resp.op = "login" /\ HasToken(resp.body)) =>
       \E u \in users :
         /\ u.email = resp.email
         /\ CompareSync(resp.password, u.password)
         /\ resp.body.access_token.email = u.email
         /\ resp.body.access_token.id = u.id
  /\ (IssuedPresented /\ now < PresentedJwt.iat + ExpiresIn) =>
       /\ resp.outcome.result
       /\ resp.outcome.user # <<>>
       /\ resp.outcome.user[1].email = PresentedJwt.email
       /\ resp.outcome.user[1].id = PresentedJwt.id

C20_Witness ==
  /\ IssuedPresented
  /\ jwtSecretEnv # ""
  /\ now > PresentedJwt.iat
  /\ resp.outcome.result
  /\ resp.outcome.user[1].email = PresentedJwt.email

\* ---------------------------------------------------------------- properties: tokens and routes
\* the user a token was issued to is no longer stored
OwnerGone(t) == \A u \in users : u.id # t.id

\* C21: at every time before its expiry an issued token is accepted by the
\* guard, whatever has happened since the login: the user updated (password
\* included) or removed, or further logins
C21_ExpiryAloneEndsValidity ==
  /\ \A t \in issued :
       now < t.exp => GuardOutcome(Header(<<Bearer, JwtText(t)>>)).result
  /\ (IssuedPresented /\ now < PresentedJwt.exp) =>
       /\ resp.outcome.result
       /\ resp.outcome.user = <<Claims(PresentedJwt)>>

C21_Witness ==
  /\ IssuedPresented
  /\ OwnerGone(PresentedJwt)
  /\ now > PresentedJwt.iat
  /\ now < PresentedJwt.exp
  /\ resp.outcome.result

\* ---------------------------------------------------------------- properties: order placement, continued
\* the value a create call that has reached its return statement returns
Returned(r) == order[r][1]

\* C22: a create call that succeeds returns the persisted header: the row
\* stored under the generated id it carries, with the userId of the request
\* and the total the call computed
C22_ReturnsPersistedHeader ==
  \A r \in Requests :
    pc[r] = "done" =>
      /\ Returned(r).id \in 1..Len(orders)
      /\ HeadersOf(Returned(r).id) = <<Returned(r)>>
      /\ Returned(r).userId = dto[r].userId
      /\ Returned(r).total = OrderTotal(products[r], dto[r])

C22_Witness ==
  \E r \in Requests :
    /\ pc[r] = "done"
    /\ Returned(r).id \in completed
    /\ Returned(r).total > 0
    /\ OwnerExists(Returned(r).userId)

\* the step is the header save of request r ending without a header written
HeaderSaveFailed(r) ==
  /\ pc[r] = "found"
  /\ pc'[r] # "found"
  /\ ~Throws(products[r], dto[r])
  /\ Len(orders') = Len(orders)

\* C23: when the header save of a create call fails, the call rejects at once
\* with that failure, storage is as it was, and the call goes on to nothing
\* else: no item write, no second attempt
C23_HeaderFailurePropagates ==
  [][\A r \in Requests :
       /\ HeaderSaveFailed(r) =>
            /\ pc'[r] = "failed"
            /\ error'[r] \in {"PersistenceFailure", "QueryFailedError"}
            /\ order'[r] = <<>>
            /\ orders' = orders
            /\ orderItems' = orderItems
            /\ catalog' = catalog
            /\ users' = users
       /\ (pc[r] = "failed" /\ ~HeaderSaved(r)) =>
            /\ pc'[r] \in {"failed", "idle"}
            /\ orders' = orders
            /\ orderItems' = orderItems]_vars

C23_Witness ==
  \E r \in Requests :
    /\ pc[r] = "failed"
    /\ error[r] = "PersistenceFailure"
    /\ ~HeaderSaved(r)
    /\ products[r] # {}
    /\ orders = <<>>
    /\ orderItems = <<>>

\* the item belongs to the lines and the catalog read of request r
OwnItem(r, i) ==
  /\ i.productId \in RequestedIds(dto[r]) \cap KnownIds(r)
  /\ i.quantity = FindItem(dto[r], i.productId)[1].quantity
  /\ i.price = PriceRead(r, i.productId)

\* C24: however two create calls interleave, their headers get different ids,
\* and the items under the id of a call's header are the items of that call:
\* one per product it read, with its own quantities, none of the other call
C24_ConcurrentCreatesIsolated ==
  /\ \A j, k \in 1..Len(orders) : j # k => orders[j].id # orders[k].id
  /\ \A r, q \in Requests :
       (r # q /\ HeaderSaved(r) /\ HeaderSaved(q)) =>
         order[r][1].id # order[q][1].id
  /\ \A r \in Requests :
       pc[r] = "done" =>
         LET its == ItemsOf(orderItems, order[r][1].id)
         IN /\ Len(its) = Cardinality(products[r])
            /\ \A k \in 1..Len(its) : OwnItem(r, its[k])

C24_Witness ==
  /\ \A r \in Requests : pc[r] = "done" /\ products[r] # {}
  /\ dto["r1"] # dto["r2"]
  /\ Len(orders) = 2
  /\ Len(orderItems) = 2
  /\ orderItems[1].orderId = 2
  /\ orderItems[2].orderId = 1

\* C25: the quantity of every persisted order item is a positive integer
C25_QuantitiesPositive ==
  \A k \in 1..Len(orderItems) :
    orderItems[k].quantity \in Nat \ {0}

\* the handlers of the guarded routes of UsersController
GuardedHandlers == {"users.findAll", "users.findOne", "users.update", "users.remove"}

\* C26: findAll, findOne, update and remove run only for the request the guard
\* has just accepted, whose header held a token that passes verification,
\* never for a request without token or with a token that fails it; create
\* can run in every state, no token needed
C26_GuardBeforeHandler ==
  [][/\ resp'.op \in GuardedHandlers =>
          /\ resp.op = "guard"
          /\ resp.outcome.result
          /\ resp.header.present
          /\ PassesVerification(resp.header)
     /\ nextUserId <= MaxUsers =>
          ENABLED (\E d \in OwnerDtos : UserCreate(d))]_vars

C26_Witness ==
  /\ resp.op = "guard"
  /\ ~resp.header.present
  /\ ~resp.outcome.result
  /\ ~ENABLED (GuardPassed /\ UserFindAll)
  /\ issued = {}
  /\ users # {}

\* every row of the table before the step is still there, unchanged
OnlyAppended(before, after) ==
  /\ Len(before) <= Len(after)
  /\ SubSeq(after, 1, Len(before)) = before

\* C27: every step of a create call, whether the call ends in success or in
\* failure, leaves the products, their prices and the users as they were, and
\* changes the orders and order items only by adding rows
C27_CreateOnlyReadsCatalog ==
  [][pc' # pc =>
       /\ catalog' = catalog
       /\ nextProductId' = nextProductId
       /\ users' = users
       /\ nextUserId' = nextUserId
       /\ OnlyAppended(orders, orders')
       /\ OnlyAppended(orderItems, orderItems')]_vars

C27_Witness ==
  \E r \in Requests :
    /\ pc[r] = "done"
    /\ products[r] # {}
    /\ products[r] \subseteq catalog
    /\ users # {}
    /\ ItemsOf(orderItems, order[r][1].id) # <<>>

\* C28: whatever users are registered and removed and whatever orders are
\* placed, the userId of every persisted order is the id of a stored user
C28_OrdersHaveOwner ==
  \A k \in 1..Len(orders) : \E u \in users : u.id = orders[k].userId

C28_Witness ==
  /\ orders # <<>>
  /\ resp.op = "users.remove"
  /\ resp.error = "QueryFailedError"
  /\ \E u \in users : u.id = resp.id
  /\ nextUserId > 2

\* ---------------------------------------------------------------- properties: users and auth, continued
\* the password a stored user last set, at registration or through update
LastSetPassword(u) == u.password.of

\* C29: validateUser called with the e-mail of a stored user and the password
\* that user last set returns that user
C29_EveryUserCanAuthenticate ==
  \A u \in users : ValidateUser(u.email, LastSetPassword(u)) = <<u>>

====
